---- MODULE Spec2Model ----
(***************************************************************************)
(* Process lifecycle of the medical-rep API server: application            *)
(* construction (app.New), App.Run with its serving goroutine and exit     *)
(* events, and App.Shutdown, as called from main; the health checks        *)
(* registered by setupHealthChecks and their periodic execution; and the   *)
(* probe endpoints /healthz, /readiness and /liveness.                     *)
(***************************************************************************)
EXTENDS Integers, Sequences, FiniteSets, TLC

\* Bounds of the model.
ShutdownTimeout == 2      \* app.shutdown.timeout, in clock ticks
MaxInflight == 2          \* requests in flight at once
MaxExternal == 1          \* entries of health.external_checks
CheckInterval == 5        \* health.check_interval, in seconds
HealthTimeout == 3        \* health.timeout, in seconds
MaxTime == 8              \* seconds of health checking that are explored

\* Constants of the program.
InitialDelay == 2         \* initial delay of the database and redis checks, seconds
ExternalInitialDelay == 5 \* initial delay of the HTTP checks, seconds

URLs == {"u1", "u2"}

SeqsUpTo(S, n) == UNION {[1..m -> S] : m \in 0..n}

Range(s) == {s[i] : i \in 1..Len(s)}

\* The element that follows step in order (the last element follows itself).
NextIn(order, step) ==
  LET i == CHOOSE j \in 1..Len(order) : order[j] = step
  IN  IF i < Len(order) THEN order[i + 1] ELSE order[i]

VARIABLES
  pc,          \* position of the main goroutine in main / New / Run / Shutdown
  call,        \* "idle" | "active": whether the teardown call at pc has begun
  cfg,         \* the resolved configuration (health section)
  db,          \* a.db: "unset" | "nil" | "open" | "closed"
  redis,       \* a.redis: "unset" | "nil" | "open" | "closed"
  upgrader,    \* a.upgrader: "unset" | "running" | "stopped"
  checks,      \* names registered with a.health
  extIdx,      \* loop index over cfg.externalChecks in setupHealthChecks
  listener,    \* ln: "none" | "open" | "closed"
  inShutdown,  \* http.Server: Shutdown has been called
  srv,         \* serving goroutine: "none" | "spawned" | "serving" | "returned"
  errChan,     \* buffered channel of capacity 1: "empty" | "err" | "ErrServerClosed"
  notify,      \* signal.Notify(sigChan, SIGINT, SIGTERM) is in effect
  sigChan,     \* buffered channel of capacity 1: a signal is pending
  upgExit,     \* upgrader.Exit() is closed
  hup,         \* an upgrade-trigger signal was delivered to the running generation
  successor,   \* position of the successor generation in New and Run ("none": no successor)
  inflight,    \* requests in flight
  elapsed,     \* clock ticks since Shutdown created its context
  startLog,    \* startup steps in the order they were executed
  sdLog,       \* teardown calls in the order they began
  sdErrs,      \* teardown calls that returned an error
  readyAt,     \* state of the serving goroutine when upgrader.Ready() succeeded
  everServing, \* Serve has begun accepting on the listener
  exitErr,     \* why the process exits non-zero ("none" otherwise)
  now,         \* seconds since setupHealthChecks registered the checks
  probe,       \* a.health: per check name, its latest result and its timer
  dep,         \* how the server behind each check (database, Redis, URL) answers at present
  req,         \* probe endpoint whose handler is running ("none" otherwise)
  resp,        \* the response to the latest probe endpoint request
  environ,     \* the process environment: per variable name its value, or "unset"
  files,       \* the configuration files that exist, each with the keys it sets
  k,           \* configs.k: the koanf instance, per key its value, or "unset"
  env,         \* Load: the environment name read to pick the environment's file
  C,           \* configs.C: the unmarshalled Config, per key its value
  lpc          \* position of configs.Load ("idle": not modelled in this run)

mainVars == <<pc, call>>
resVars == <<db, redis, upgrader, checks, extIdx>>
srvVars == <<listener, inShutdown, srv, errChan, inflight, everServing>>
evtVars == <<notify, sigChan, upgExit, hup, successor>>
histVars == <<startLog, sdLog, sdErrs, readyAt, exitErr>>
hlthVars == <<now, probe, dep, req, resp>>
loadVars == <<environ, files, k, env, C, lpc>>
confVars == <<cfg, loadVars>>
vars == <<mainVars, confVars, hlthVars, resVars, srvVars, evtVars, elapsed, histVars>>

Configs ==
  [healthEnabled : BOOLEAN, databaseCheck : BOOLEAN, redisCheck : BOOLEAN,
   externalChecks : SeqsUpTo(URLs, MaxExternal)]

\* Name under which setupHealthChecks registers the HTTP check of url.
HTTPCheckName(url) == "http_" \o url

\* The collaborators that the checks and /readiness ping.
Collaborators == {"database", "redis"}

\* Every name setupHealthChecks can register.
CheckNames == Collaborators \cup {HTTPCheckName(u) : u \in URLs}

\* The registry's entry of a name that is not registered.
NoProbe ==
  [status |-> "none", observedAt |-> 0, firedAt |-> 0, nextAt |-> 0,
   running |-> FALSE]

\* No response was written.
NoResp == [ep |-> "none", code |-> 0, body |-> {}]

----------------------------------------------------------------------------
\* configs: the names and keys that Load handles.  A string is held as the
\* sequence of its words, the words being what "_" separates: the variable
\* MEDICAL_REP_HTTP_PORT is <<"MEDICAL", "REP", "HTTP", "PORT">>.  A key is the
\* sequence of its segments, the segments being what the delimiter "."
\* separates, and a segment is a string: auth.jwt_secret is
\* << <<"auth">>, <<"jwt", "secret">> >>.

\* strings.ToLower on one word.
ToLower(w) ==
  CASE w = "MEDICAL" -> "medical" [] w = "REP" -> "rep"
    [] w = "APP" -> "app" [] w = "ENVIRONMENT" -> "environment"
    [] w = "HTTP" -> "http" [] w = "PORT" -> "port"
    [] w = "DATABASE" -> "database" [] w = "HOST" -> "host"
    [] w = "AUTH" -> "auth" [] w = "JWT" -> "jwt" [] w = "SECRET" -> "secret"
    [] OTHER -> w

\* The prefix "MEDICAL_REP_": these two words and the "_" after them.
Prefix == <<"MEDICAL", "REP">>

\* strings.TrimPrefix(s, "MEDICAL_REP_")
TrimPrefix(s) ==
  IF Len(s) > Len(Prefix) /\ SubSeq(s, 1, Len(Prefix)) = Prefix
    THEN SubSeq(s, Len(Prefix) + 1, Len(s))
    ELSE s

\* The callback that loadEnvVars gives to env.Provider: the key that the
\* variable named s sets.  Every "_" is made a ".", so every word of the name
\* becomes a segment of its own.
EnvKey(s) ==
  LET t == TrimPrefix(s)
  IN  [i \in 1..Len(t) |-> <<ToLower(t[i])>>]

\* Keys of the Config struct (its koanf tags).
AppName == <<<<"app">>, <<"name">>>>
AppEnvironment == <<<<"app">>, <<"environment">>>>
HTTPPort == <<<<"http">>, <<"port">>>>
TLSEnabled == <<<<"http">>, <<"tls">>, <<"enabled">>>>
TLSCertFile == <<<<"http">>, <<"tls">>, <<"cert", "file">>>>
TLSKeyFile == <<<<"http">>, <<"tls">>, <<"key", "file">>>>
DatabaseDriver == <<<<"database">>, <<"driver">>>>
DatabaseHost == <<<<"database">>, <<"host">>>>
AuthJWTSecret == <<<<"auth">>, <<"jwt", "secret">>>>

ConfigKeys ==
  {AppName, AppEnvironment, HTTPPort, TLSEnabled, TLSCertFile, TLSKeyFile,
   DatabaseDriver, DatabaseHost, AuthJWTSecret}

\* The decimal numerals considered, and strconv's reading of them: a port is
\* held as its numeral in k and in C.
Numerals ==
  {"-1", "0", "8080", "8081", "8082", "9001", "9002", "9003", "65535", "65536"}

Atoi(v) ==
  CASE v = "-1" -> -1 [] v = "0" -> 0
    [] v = "8080" -> 8080 [] v = "8081" -> 8081 [] v = "8082" -> 8082
    [] v = "9001" -> 9001 [] v = "9002" -> 9002 [] v = "9003" -> 9003
    [] v = "65535" -> 65535 [] v = "65536" -> 65536

\* The environment variables considered.
EnvNames ==
  {Prefix \o <<"APP", "ENVIRONMENT">>, Prefix \o <<"HTTP", "PORT">>,
   Prefix \o <<"DATABASE", "HOST">>, Prefix \o <<"AUTH", "JWT", "SECRET">>}

\* Every key that koanf can come to hold.
KoanfKeys == ConfigKeys \cup {EnvKey(s) : s \in EnvNames}

\* A source that sets no key.
NoLayer == [key \in KoanfKeys |-> "unset"]

\* loadDefaults: the values of the defaults struct; JWTSecret is not given
\* there and so is the empty string.
Defaults ==
  [key \in KoanfKeys |->
     CASE key = AppName -> "medical-rep-api"
       [] key = AppEnvironment -> "development"
       [] key = HTTPPort -> "8080"
       [] key = TLSEnabled -> "false"
       [] key = TLSCertFile -> ""
       [] key = TLSKeyFile -> ""
       [] key = DatabaseDriver -> "postgres"
       [] key = DatabaseHost -> "default"
       [] key = AuthJWTSecret -> ""
       [] OTHER -> "unset"]

\* Paths of the configuration files.
BaseConfigFile == "configs/config.yaml"

EnvConfigFile(name) == "configs/config." \o name \o ".yaml"

ConfigFiles ==
  {BaseConfigFile, "configs/config.prod.yaml", EnvConfigFile("production"),
   EnvConfigFile("development")}

\* The state of the configuration package while Load is not looked at.
LoadIdle ==
  /\ environ = [s \in EnvNames |-> "unset"]
  /\ files = [f \in {} |-> NoLayer]
  /\ k = NoLayer
  /\ env = ""
  /\ C = [key \in ConfigKeys |-> "unset"]
  /\ lpc = "idle"

\* The process when main starts, c being the configuration that Load yields.
ProcessStart(c) ==
  /\ pc = "load_config"
  /\ call = "idle"
  /\ cfg = c
  /\ db = "unset"
  /\ redis = "unset"
  /\ upgrader = "unset"
  /\ checks = {}
  /\ extIdx = 1
  /\ listener = "none"
  /\ inShutdown = FALSE
  /\ srv = "none"
  /\ errChan = "empty"
  /\ notify = FALSE
  /\ sigChan = FALSE
  /\ upgExit = FALSE
  /\ hup = FALSE
  /\ successor = "none"
  /\ inflight = 0
  /\ elapsed = 0
  /\ startLog = <<>>
  /\ sdLog = <<>>
  /\ sdErrs = {}
  /\ readyAt = "none"
  /\ everServing = FALSE
  /\ exitErr = "none"
  /\ now = 0
  /\ probe = [d \in CheckNames |-> NoProbe]
  /\ dep = [d \in CheckNames |-> "up"]
  /\ req = "none"
  /\ resp = NoResp

InitWith(c) == LoadIdle /\ ProcessStart(c)

Init == \E c \in Configs : InitWith(c)

\* The process is running (main has neither returned nor exited, and no signal killed it).
Alive == pc \notin {"done", "exit1", "killed", "fatal"}

----------------------------------------------------------------------------
\* main, New and Run up to the select: the order of the startup steps.

\* Order of the steps of New followed by Run as main calls them.
StartupOrderListenFirst ==
  <<"load_config", "new_logger", "new_db", "new_redis", "new_upgrader",
    "run_listen", "setup_health", "hc_db", "hc_redis", "hc_ext",
    "run_go", "run_ready", "run_notify", "run_select">>

StartupOrder ==
  <<"load_config", "new_logger", "new_db", "new_redis", "new_upgrader",
    "setup_health", "hc_db", "hc_redis", "hc_ext",
    "run_listen", "run_go", "run_ready", "run_notify", "run_select">>

StartupNext(step) == NextIn(StartupOrder, step)

\* New or Run returns err; main logs it and exits with status 1.
Fail(reason) ==
  /\ pc' = "exit1"
  /\ exitErr' = reason

\* configs.Get: C == nil, on which Get ends the process with log.Fatal.  In a
\* run that does not look at Load, Load's success stands for C being set.
ConfigNilAlways == TRUE

ConfigNil == lpc # "idle" /\ \A key \in ConfigKeys : C[key] = "unset"

\* New: configs.Load(), and cfg := configs.Get() when Load returned nil
LoadConfig ==
  /\ pc = "load_config"
  /\ \/ /\ lpc \in {"idle", "done"}
        /\ pc' = IF ConfigNil THEN "fatal" ELSE StartupNext("load_config")
        /\ UNCHANGED exitErr
     \/ /\ lpc \in {"idle", "failed"}
        /\ Fail("config")
  /\ UNCHANGED <<call, confVars, hlthVars, resVars, srvVars, evtVars, elapsed,
                 startLog, sdLog, sdErrs, readyAt>>

\* New: logger.New(cfg.Logging)
NewLogger ==
  /\ pc = "new_logger"
  /\ \/ /\ pc' = StartupNext("new_logger")
        /\ UNCHANGED exitErr
     \/ Fail("logger")
  /\ UNCHANGED <<call, confVars, hlthVars, resVars, srvVars, evtVars, elapsed,
                 startLog, sdLog, sdErrs, readyAt>>

\* New: database.New(cfg.Database)
NewDatabase ==
  /\ pc = "new_db"
  /\ \/ /\ \E c \in {"open", "nil"} : db' = c
        /\ pc' = StartupNext("new_db")
        /\ startLog' = Append(startLog, "open_db")
        /\ UNCHANGED exitErr
     \/ /\ Fail("database")
        /\ UNCHANGED <<db, startLog>>
  /\ UNCHANGED <<call, confVars, hlthVars, redis, upgrader, checks, extIdx, srvVars, evtVars,
                 elapsed, sdLog, sdErrs, readyAt>>

\* New: redis.New(cfg.Redis)
NewRedis ==
  /\ pc = "new_redis"
  /\ \/ /\ \E c \in {"open", "nil"} : redis' = c
        /\ pc' = StartupNext("new_redis")
        /\ startLog' = Append(startLog, "open_redis")
        /\ UNCHANGED exitErr
     \/ /\ Fail("redis")
        /\ UNCHANGED <<redis, startLog>>
  /\ UNCHANGED <<call, confVars, hlthVars, db, upgrader, checks, extIdx, srvVars, evtVars,
                 elapsed, sdLog, sdErrs, readyAt>>

\* New: tableflip.New, then gosundheit.New, setupRouter and setupServer (which cannot fail)
NewUpgrader ==
  /\ pc = "new_upgrader"
  /\ \/ /\ upgrader' = "running"
        /\ pc' = StartupNext("new_upgrader")
        /\ UNCHANGED exitErr
     \/ /\ Fail("upgrader")
        /\ UNCHANGED upgrader
  /\ UNCHANGED <<call, confVars, hlthVars, db, redis, checks, extIdx, srvVars, evtVars,
                 elapsed, startLog, sdLog, sdErrs, readyAt>>

\* RegisterCheck(check, InitialDelay(d), ExecutionPeriod(p)): the delay d.
DelayOf(c) == IF c \in Collaborators THEN InitialDelay ELSE ExternalInitialDelay

\* The registry's entry of a check at its registration: no result yet (the
\* check counts as not healthy), first execution after the initial delay.
NewProbe(c) ==
  [status |-> "Pending", observedAt |-> 0, firedAt |-> 0,
   nextAt |-> now + DelayOf(c), running |-> FALSE]

\* The registry's entry of check c once c is deregistered: the result and the
\* timer are gone; an execution that is in flight is not interrupted.
RemovedKeepsEntry(c) == probe[c]

Removed(c) ==
  IF probe[c].running
    THEN [NoProbe EXCEPT !.running = TRUE, !.firedAt = probe[c].firedAt]
    ELSE NoProbe

\* The registry once cs is the set of registered names: new names get a fresh
\* entry, removed names lose theirs.
RegistryOf(cs) ==
  [c \in CheckNames |->
     IF c \notin cs THEN Removed(c)
     ELSE IF c \in checks THEN probe[c] ELSE NewProbe(c)]

\* setupHealthChecks: nothing is registered when health checking is disabled
SetupHealth ==
  /\ pc = "setup_health"
  /\ pc' = IF cfg.healthEnabled THEN StartupNext("setup_health")
                                ELSE StartupNext("hc_ext")
  /\ UNCHANGED <<call, confVars, hlthVars, resVars, srvVars, evtVars, elapsed, histVars>>

\* setupHealthChecks: whether the check of collaborator c is registered, flag
\* being its switch in the health configuration and client the App's field.
CheckWantedByFlagAlone(flag, client) == flag

CheckWanted(flag, client) == flag /\ client # "nil"

\* setupHealthChecks: the "database" check; RegisterCheck may return an error
RegisterDatabaseCheck ==
  /\ pc = "hc_db"
  /\ IF CheckWanted(cfg.databaseCheck, db)
       THEN \/ /\ checks' = checks \cup {"database"}
               /\ startLog' = Append(startLog, "register")
               /\ pc' = StartupNext("hc_db")
               /\ UNCHANGED exitErr
            \/ /\ Fail("health")
               /\ UNCHANGED <<checks, startLog>>
       ELSE /\ pc' = StartupNext("hc_db")
            /\ UNCHANGED <<checks, startLog, exitErr>>
  /\ probe' = RegistryOf(checks')
  /\ UNCHANGED <<call, confVars, now, dep, req, resp, db, redis, upgrader, extIdx, srvVars, evtVars,
                 elapsed, sdLog, sdErrs, readyAt>>

\* setupHealthChecks: the "redis" check
RegisterRedisCheck ==
  /\ pc = "hc_redis"
  /\ IF CheckWanted(cfg.redisCheck, redis)
       THEN \/ /\ checks' = checks \cup {"redis"}
               /\ startLog' = Append(startLog, "register")
               /\ pc' = StartupNext("hc_redis")
               /\ UNCHANGED exitErr
            \/ /\ Fail("health")
               /\ UNCHANGED <<checks, startLog>>
       ELSE /\ pc' = StartupNext("hc_redis")
            /\ UNCHANGED <<checks, startLog, exitErr>>
  /\ probe' = RegistryOf(checks')
  /\ UNCHANGED <<call, confVars, now, dep, req, resp, db, redis, upgrader, extIdx, srvVars, evtVars,
                 elapsed, sdLog, sdErrs, readyAt>>

\* setupHealthChecks: one iteration of the loop over health.external_checks
\* (NewHTTPCheck or RegisterCheck may return an error), or the loop's end
RegisterExternalCheck ==
  /\ pc = "hc_ext"
  /\ IF extIdx <= Len(cfg.externalChecks)
       THEN \/ /\ checks' = checks \cup {HTTPCheckName(cfg.externalChecks[extIdx])}
               /\ extIdx' = extIdx + 1
               /\ startLog' = Append(startLog, "register")
               /\ UNCHANGED <<pc, exitErr>>
            \/ /\ Fail("health")
               /\ UNCHANGED <<checks, extIdx, startLog>>
       ELSE /\ pc' = StartupNext("hc_ext")
            /\ UNCHANGED <<checks, extIdx, startLog, exitErr>>
  /\ probe' = RegistryOf(checks')
  /\ UNCHANGED <<call, confVars, now, dep, req, resp, db, redis, upgrader, srvVars, evtVars,
                 elapsed, sdLog, sdErrs, readyAt>>

\* Run: a.upgrader.Listen("tcp", addr)
Listen ==
  /\ pc = "run_listen"
  /\ \/ /\ listener' = "open"
        /\ pc' = StartupNext("run_listen")
        /\ startLog' = Append(startLog, "listen")
        /\ UNCHANGED exitErr
     \/ /\ Fail("listen")
        /\ UNCHANGED <<listener, startLog>>
  /\ UNCHANGED <<call, confVars, hlthVars, resVars, inShutdown, srv, errChan, inflight,
                 everServing, evtVars, elapsed, sdLog, sdErrs, readyAt>>

\* Run: errChan := make(chan error, 1); go func() { errChan <- a.server.Serve(ln) }()
GoServe ==
  /\ pc = "run_go"
  /\ srv' = "spawned"
  /\ pc' = StartupNext("run_go")
  /\ startLog' = Append(startLog, "serve")
  /\ UNCHANGED <<call, confVars, hlthVars, resVars, listener, inShutdown, errChan, inflight,
                 everServing, evtVars, elapsed, sdLog, sdErrs, readyAt, exitErr>>

\* What the serving goroutine is doing, as seen at a call of upgrader.Ready().
ServeStatus ==
  CASE srv = "serving" -> "serving"
    [] srv = "returned" -> "returned"
    [] OTHER -> "not_started"

\* Run: a.upgrader.Ready()
SignalReady ==
  /\ pc = "run_ready"
  /\ \/ /\ readyAt' = ServeStatus
        /\ pc' = StartupNext("run_ready")
        /\ startLog' = Append(startLog, "ready")
        /\ UNCHANGED exitErr
     \/ /\ Fail("ready")
        /\ UNCHANGED <<readyAt, startLog>>
  /\ UNCHANGED <<call, confVars, hlthVars, resVars, srvVars, evtVars, elapsed, sdLog, sdErrs>>

\* Run: sigChan := make(chan os.Signal, 1); signal.Notify(sigChan, SIGINT, SIGTERM)
NotifySignals ==
  /\ pc = "run_notify"
  /\ notify' = TRUE
  /\ pc' = StartupNext("run_notify")
  /\ UNCHANGED <<call, confVars, hlthVars, resVars, srvVars, sigChan, upgExit, hup, successor,
                 elapsed, histVars>>

----------------------------------------------------------------------------
\* The serving goroutine and the requests it accepts.

\* The send errChan <- err of the serving goroutine can complete. An unbuffered
\* channel takes a value only while the receiver waits in the select of Run.
CanSendUnbuffered == pc = "run_select" /\ errChan = "empty"

\* errChan has capacity 1: the send completes while the buffer has room.
CanSend == errChan = "empty"

\* The goroutine runs and calls Serve / ServeTLS: it begins accepting, or returns
\* at once (ErrServerClosed once Shutdown was called, another error otherwise,
\* e.g. ServeTLS cannot load the certificate) and sends the result on errChan.
ServeBegin ==
  /\ Alive
  /\ srv = "spawned"
  /\ \/ /\ ~inShutdown
        /\ srv' = "serving"
        /\ everServing' = TRUE
        /\ UNCHANGED errChan
     \/ /\ CanSend
        /\ srv' = "returned"
        /\ errChan' = IF inShutdown THEN "ErrServerClosed" ELSE "err"
        /\ UNCHANGED everServing
  /\ UNCHANGED <<mainVars, confVars, hlthVars, resVars, listener, inShutdown, inflight,
                 evtVars, elapsed, histVars>>

\* Serve returns while serving: ErrServerClosed after Shutdown was called,
\* otherwise a permanent Accept error.
ServeReturn ==
  /\ Alive
  /\ srv = "serving"
  /\ CanSend
  /\ srv' = "returned"
  /\ errChan' = IF inShutdown THEN "ErrServerClosed" ELSE "err"
  /\ UNCHANGED <<mainVars, confVars, hlthVars, resVars, listener, inShutdown, inflight,
                 everServing, evtVars, elapsed, histVars>>

\* The generation accepts new connections: Serve is running on an open listener
\* and Shutdown has not been called on the server.
Accepting == Alive /\ srv = "serving" /\ listener = "open" /\ ~inShutdown

\* A new connection is accepted and its request starts.
AcceptRequest ==
  /\ Accepting
  /\ inflight < MaxInflight
  /\ inflight' = inflight + 1
  /\ UNCHANGED <<mainVars, confVars, hlthVars, resVars, listener, inShutdown, srv, errChan,
                 everServing, evtVars, elapsed, histVars>>

\* A request in flight completes.
FinishRequest ==
  /\ Alive
  /\ inflight > 0
  /\ inflight' = inflight - 1
  /\ UNCHANGED <<mainVars, confVars, hlthVars, resVars, listener, inShutdown, srv, errChan,
                 everServing, evtVars, elapsed, histVars>>

----------------------------------------------------------------------------
\* Events delivered to the process.

\* SIGINT / SIGTERM: queued on sigChan once signal.Notify is in effect (a second
\* one is dropped while the buffer is full); before that the signal's default
\* action ends the process.
TermSignal ==
  /\ Alive
  /\ IF notify
       THEN /\ sigChan' = TRUE
            /\ UNCHANGED pc
       ELSE /\ pc' = "killed"
            /\ UNCHANGED sigChan
  /\ UNCHANGED <<call, confVars, hlthVars, resVars, srvVars, notify, upgExit, hup, successor,
                 elapsed, histVars>>

\* The upgrade-trigger signal (SIGHUP) reaches the generation while Run waits in
\* its select. Run registers SIGINT and SIGTERM only and nothing calls
\* upgrader.Upgrade(): the signal takes its default action, which ends the
\* process, and no successor is started.
UpgradeSignal ==
  /\ pc = "run_select"
  /\ ~hup
  /\ hup' = TRUE
  /\ pc' = "killed"
  /\ UNCHANGED <<call, confVars, hlthVars, resVars, srvVars, notify, sigChan, upgExit,
                 successor, elapsed, histVars>>

\* tableflip closes the channel returned by upgrader.Exit(): an upgrade completed.
UpgradeComplete ==
  /\ Alive
  /\ upgrader = "running"
  /\ readyAt # "none"
  /\ ~upgExit
  /\ upgExit' = TRUE
  /\ UNCHANGED <<mainVars, confVars, hlthVars, resVars, srvVars, notify, sigChan, hup,
                 successor, elapsed, histVars>>

----------------------------------------------------------------------------
\* Run: the select over errChan, sigChan and upgrader.Exit().

\* case err := <-errChan
SelectServeResult ==
  /\ pc = "run_select"
  /\ errChan # "empty"
  /\ errChan' = "empty"
  /\ IF errChan # "ErrServerClosed"
       THEN Fail("serve")
       ELSE /\ pc' = "sd_server"
            /\ UNCHANGED exitErr
  /\ UNCHANGED <<call, confVars, hlthVars, resVars, listener, inShutdown, srv, inflight,
                 everServing, evtVars, elapsed, startLog, sdLog, sdErrs, readyAt>>

\* case sig := <-sigChan
SelectSignal ==
  /\ pc = "run_select"
  /\ sigChan
  /\ sigChan' = FALSE
  /\ pc' = "sd_server"
  /\ UNCHANGED <<call, confVars, hlthVars, resVars, srvVars, notify, upgExit, hup, successor,
                 elapsed, histVars>>

\* The case of the select on upgrader.Exit() can be taken: the channel is closed.
ExitNotAwaited == TRUE

ExitClosed == upgExit

\* case <-a.upgrader.Exit()
SelectUpgrade ==
  /\ pc = "run_select"
  /\ ExitClosed
  /\ pc' = "sd_server"
  /\ UNCHANGED <<call, confVars, hlthVars, resVars, srvVars, evtVars, elapsed, histVars>>

----------------------------------------------------------------------------
\* Shutdown: the teardown calls, their order and their errors.

\* Teardown calls of Shutdown in program order.
ShutdownOrderCloseBeforeDeregister ==
  <<"sd_server", "sd_db", "sd_redis", "sd_dereg", "sd_upg">>

ShutdownOrder ==
  <<"sd_server", "sd_dereg", "sd_db", "sd_redis", "sd_upg">>

\* Where Run continues once Shutdown has returned: return a.Shutdown().
RunAfterShutdownSelectAgain == "run_select"

RunAfterShutdown == "done"

ShutdownNext(step) ==
  IF step = ShutdownOrder[Len(ShutdownOrder)]
    THEN RunAfterShutdown
    ELSE NextIn(ShutdownOrder, step)

\* Where Shutdown continues after a teardown call returned (err: with an error):
\* the error is logged and the next call follows.
AfterStepReturnOnError(step, err) ==
  IF err THEN RunAfterShutdown ELSE ShutdownNext(step)

AfterStep(step, err) == ShutdownNext(step)

\* Shutdown: a.server.Shutdown(ctx) is called: the listener is closed at once
ServerShutdownBegin ==
  /\ pc = "sd_server"
  /\ call = "idle"
  /\ call' = "active"
  /\ inShutdown' = TRUE
  /\ listener' = "closed"
  /\ sdLog' = Append(sdLog, "sd_server")
  /\ UNCHANGED <<pc, confVars, hlthVars, resVars, srv, errChan, inflight, everServing, evtVars,
                 elapsed, startLog, sdErrs, readyAt, exitErr>>

\* server.Shutdown(ctx) stops waiting: no request is in flight any more, or the
\* deadline of ctx has passed.
DrainDoneNoWait == TRUE

DrainDone == inflight = 0 \/ elapsed >= ShutdownTimeout

\* Shutdown: a.server.Shutdown(ctx) returns: nil once no request is in flight,
\* the context's error once the deadline has passed with requests in flight
ServerShutdownReturn ==
  /\ pc = "sd_server"
  /\ call = "active"
  /\ DrainDone
  /\ call' = "idle"
  /\ pc' = AfterStep("sd_server", inflight > 0)
  /\ sdErrs' = IF inflight > 0 THEN sdErrs \cup {"sd_server"} ELSE sdErrs
  /\ UNCHANGED <<confVars, hlthVars, resVars, srvVars, evtVars, elapsed, startLog, sdLog,
                 readyAt, exitErr>>

\* Shutdown: a.health.DeregisterAll()
DeregisterAll ==
  /\ pc = "sd_dereg"
  /\ checks' = {}
  /\ sdLog' = Append(sdLog, "sd_dereg")
  /\ pc' = AfterStep("sd_dereg", FALSE)
  /\ probe' = RegistryOf(checks')
  /\ UNCHANGED <<call, confVars, now, dep, req, resp, db, redis, upgrader, extIdx, srvVars, evtVars,
                 elapsed, startLog, sdErrs, readyAt, exitErr>>

\* Shutdown: a.db.Close() is called, unless a.db is nil
CloseDatabaseBegin ==
  /\ pc = "sd_db"
  /\ call = "idle"
  /\ IF db = "nil"
       THEN /\ pc' = AfterStep("sd_db", FALSE)
            /\ UNCHANGED <<call, sdLog>>
       ELSE /\ call' = "active"
            /\ sdLog' = Append(sdLog, "sd_db")
            /\ UNCHANGED pc
  /\ UNCHANGED <<confVars, hlthVars, resVars, srvVars, evtVars, elapsed, startLog, sdErrs,
                 readyAt, exitErr>>

\* Shutdown: a.db.Close() returns, with or without an error
CloseDatabaseReturn ==
  /\ pc = "sd_db"
  /\ call = "active"
  /\ \E err \in BOOLEAN :
       /\ pc' = AfterStep("sd_db", err)
       /\ sdErrs' = IF err THEN sdErrs \cup {"sd_db"} ELSE sdErrs
  /\ call' = "idle"
  /\ db' = "closed"
  /\ UNCHANGED <<confVars, hlthVars, redis, upgrader, checks, extIdx, srvVars, evtVars,
                 elapsed, startLog, sdLog, readyAt, exitErr>>

\* Shutdown: a.redis.Close() is called, unless a.redis is nil
CloseRedisBegin ==
  /\ pc = "sd_redis"
  /\ call = "idle"
  /\ IF redis = "nil"
       THEN /\ pc' = AfterStep("sd_redis", FALSE)
            /\ UNCHANGED <<call, sdLog>>
       ELSE /\ call' = "active"
            /\ sdLog' = Append(sdLog, "sd_redis")
            /\ UNCHANGED pc
  /\ UNCHANGED <<confVars, hlthVars, resVars, srvVars, evtVars, elapsed, startLog, sdErrs,
                 readyAt, exitErr>>

\* Shutdown: a.redis.Close() returns, with or without an error
CloseRedisReturn ==
  /\ pc = "sd_redis"
  /\ call = "active"
  /\ \E err \in BOOLEAN :
       /\ pc' = AfterStep("sd_redis", err)
       /\ sdErrs' = IF err THEN sdErrs \cup {"sd_redis"} ELSE sdErrs
  /\ call' = "idle"
  /\ redis' = "closed"
  /\ UNCHANGED <<confVars, hlthVars, db, upgrader, checks, extIdx, srvVars, evtVars,
                 elapsed, startLog, sdLog, readyAt, exitErr>>

\* Shutdown: a.upgrader.Stop(), which also closes upgrader.Exit(); return nil
UpgraderStop ==
  /\ pc = "sd_upg"
  /\ upgrader' = "stopped"
  /\ upgExit' = TRUE
  /\ sdLog' = Append(sdLog, "sd_upg")
  /\ pc' = AfterStep("sd_upg", FALSE)
  /\ UNCHANGED <<call, confVars, hlthVars, db, redis, checks, extIdx, srvVars, notify, sigChan,
                 hup, successor, elapsed, startLog, sdErrs, readyAt, exitErr>>

\* Shutdown is executing (its context exists and it has not returned).
InShutdown == pc \in Range(ShutdownOrder)

\* Time passes while a teardown call is blocked. server.Shutdown(ctx) is bound by
\* the context and returns at its deadline; Close() takes no context and may
\* take any time, or never return.
Tick ==
  /\ pc \in {"sd_server", "sd_db", "sd_redis"}
  /\ call = "active"
  /\ elapsed <= ShutdownTimeout
  /\ pc = "sd_server" => elapsed < ShutdownTimeout
  /\ elapsed' = elapsed + 1
  /\ UNCHANGED <<mainVars, confVars, hlthVars, resVars, srvVars, evtVars, histVars>>

----------------------------------------------------------------------------
Next ==
  \/ LoadConfig \/ NewLogger \/ NewDatabase \/ NewRedis \/ NewUpgrader
  \/ SetupHealth \/ RegisterDatabaseCheck \/ RegisterRedisCheck
  \/ RegisterExternalCheck
  \/ Listen \/ GoServe \/ SignalReady \/ NotifySignals
  \/ ServeBegin \/ ServeReturn \/ AcceptRequest \/ FinishRequest
  \/ TermSignal \/ UpgradeSignal \/ UpgradeComplete
  \/ SelectServeResult \/ SelectSignal \/ SelectUpgrade
  \/ ServerShutdownBegin \/ ServerShutdownReturn \/ DeregisterAll
  \/ CloseDatabaseBegin \/ CloseDatabaseReturn
  \/ CloseRedisBegin \/ CloseRedisReturn \/ UpgraderStop
  \/ Tick

Spec == Init /\ [][Next]_vars

----------------------------------------------------------------------------
\* A handoff: a successor generation of the same program is started with the
\* listening socket of the running generation and executes New and Run.  The
\* variable successor holds the position of the successor in that code.

\* The successor signalled ready to its parent.
SuccessorIsReady == successor \in {"ready_unserved", "ready_serving"}

\* The successor's Serve is running on the inherited listener.
SuccessorAccepting == successor \in {"serving", "ready_serving"}

\* The successor process exists and holds the inherited socket.
SuccessorHoldsSocket == successor \notin {"none", "failed"}

\* An upgrade is started on the running generation: the upgrader starts the
\* successor and passes it the listening socket.
SuccessorSpawn ==
  /\ pc = "run_select"
  /\ upgrader = "running"
  /\ readyAt # "none"
  /\ listener = "open"
  /\ ~upgExit
  /\ successor = "none"
  /\ successor' = "spawned"
  /\ UNCHANGED <<mainVars, confVars, hlthVars, resVars, srvVars, notify, sigChan, upgExit, hup,
                 elapsed, histVars>>

\* The successor executes New: it returns an App, or an error and the successor
\* exits.
SuccessorNew ==
  /\ successor = "spawned"
  /\ successor' \in {"constructed", "failed"}
  /\ UNCHANGED <<mainVars, confVars, hlthVars, resVars, srvVars, notify, sigChan, upgExit, hup,
                 elapsed, histVars>>

\* The successor's Run: a.upgrader.Listen returns the inherited listener.
SuccessorListen ==
  /\ successor = "constructed"
  /\ successor' = "listening"
  /\ UNCHANGED <<mainVars, confVars, hlthVars, resVars, srvVars, notify, sigChan, upgExit, hup,
                 elapsed, histVars>>

\* The successor's Run: go func() { ... Serve(ln) ... }()
SuccessorGoServe ==
  /\ successor = "listening"
  /\ successor' = "unserved"
  /\ UNCHANGED <<mainVars, confVars, hlthVars, resVars, srvVars, notify, sigChan, upgExit, hup,
                 elapsed, histVars>>

\* The successor's serving goroutine calls Serve and begins accepting.
SuccessorServeBegin ==
  /\ successor \in {"unserved", "ready_unserved"}
  /\ successor' = IF successor = "unserved" THEN "serving" ELSE "ready_serving"
  /\ UNCHANGED <<mainVars, confVars, hlthVars, resVars, srvVars, notify, sigChan, upgExit, hup,
                 elapsed, histVars>>

\* The successor's Run: a.upgrader.Ready().  The upgrader of the parent closes
\* the channel returned by its Exit().
SuccessorSignalReady ==
  /\ successor \in {"unserved", "serving"}
  /\ successor' = IF successor = "unserved" THEN "ready_unserved"
                                            ELSE "ready_serving"
  /\ upgExit' = TRUE
  /\ UNCHANGED <<mainVars, confVars, hlthVars, resVars, srvVars, notify, sigChan, hup,
                 elapsed, histVars>>

\* The running generation at the start of a handoff: started without health
\* checks, ready and serving, blocked in the select of Run.
InitHandoff ==
  /\ LoadIdle
  /\ pc = "run_select"
  /\ call = "idle"
  /\ cfg = [healthEnabled |-> FALSE, databaseCheck |-> FALSE,
            redisCheck |-> FALSE, externalChecks |-> <<>>]
  /\ db = "open"
  /\ redis = "open"
  /\ upgrader = "running"
  /\ checks = {}
  /\ extIdx = 1
  /\ listener = "open"
  /\ inShutdown = FALSE
  /\ srv = "serving"
  /\ errChan = "empty"
  /\ notify = TRUE
  /\ sigChan = FALSE
  /\ upgExit = FALSE
  /\ hup = FALSE
  /\ successor = "none"
  /\ inflight = 0
  /\ elapsed = 0
  /\ startLog = <<"open_db", "open_redis", "listen", "serve", "ready">>
  /\ sdLog = <<>>
  /\ sdErrs = {}
  /\ readyAt = "serving"
  /\ everServing = TRUE
  /\ exitErr = "none"
  /\ now = 0
  /\ probe = [c \in CheckNames |-> NoProbe]
  /\ dep = [c \in CheckNames |-> "up"]
  /\ req = "none"
  /\ resp = NoResp

NextHandoff ==
  \/ SuccessorSpawn \/ SuccessorNew \/ SuccessorListen \/ SuccessorGoServe
  \/ SuccessorServeBegin \/ SuccessorSignalReady
  \/ ServeReturn \/ AcceptRequest \/ FinishRequest
  \/ SelectServeResult \/ SelectUpgrade
  \/ ServerShutdownBegin \/ ServerShutdownReturn \/ DeregisterAll
  \/ CloseDatabaseBegin \/ CloseDatabaseReturn
  \/ CloseRedisBegin \/ CloseRedisReturn \/ UpgraderStop
  \/ Tick

SpecHandoff == InitHandoff /\ [][NextHandoff]_vars

----------------------------------------------------------------------------
\* The health registry a.health and the execution of the registered checks.
\* Each registered check has its own timer and runs in its own goroutine: the
\* first execution after the initial delay, the following ones at every tick
\* of a ticker of period health.check_interval that is created after the first.

Registered(c) == probe[c].status # "none"

\* The client of a collaborator: a.db for "database", a.redis for "redis".
Client(c) == IF c = "database" THEN db ELSE redis

\* Ping(ctx) on the client of collaborator c.  A closed client and a server
\* that is down return an error; a server that does not answer lets Ping
\* return the context's error at the deadline of ctx when ctx has one (bounded),
\* and blocks it otherwise.
Ping(c, bounded) ==
  IF Client(c) = "closed" THEN "err"
  ELSE CASE dep[c] = "up" -> "ok"
         [] dep[c] = "down" -> "err"
         [] OTHER -> IF bounded THEN "deadline" ELSE "blocked"

\* The HTTP check of a URL, executed now: its client has the timeout
\* health.timeout, so a request that gets no answer fails at that timeout.
HTTPGet(c) ==
  CASE dep[c] = "up" -> "ok"
    [] dep[c] = "down" -> "err"
    [] OTHER -> IF now >= probe[c].firedAt + HealthTimeout THEN "deadline"
                                                           ELSE "blocked"

\* The function of the check registered as c, executed now.  The checks
\* "database" and "redis" pass the context they are given on to Ping, and
\* RegisterCheck is given no timeout for them.
ProbeOutcome(c) == IF c \in Collaborators THEN Ping(c, FALSE) ELSE HTTPGet(c)

\* The first tick of the check's ticker after now, at being the latest tick.
NextTick(at) == at + ((now - at) \div CheckInterval + 1) * CheckInterval

\* The timer of check c fires and its execution starts.
ProbeStart(c) ==
  /\ Alive
  /\ Registered(c)
  /\ ~probe[c].running
  /\ now >= probe[c].nextAt
  /\ probe' = [probe EXCEPT
       ![c].running = TRUE,
       ![c].firedAt = now,
       ![c].nextAt = IF probe[c].status = "Pending" THEN @ ELSE NextTick(@)]
  /\ UNCHANGED <<mainVars, confVars, now, dep, req, resp, resVars, srvVars, evtVars,
                 elapsed, histVars>>

\* The registry's entry of check d once the execution of check c has returned
\* outcome: the entry of c gets the result, every other entry is kept.
ResultAfterShared(c, d, outcome) ==
  IF d = c \/ outcome # "ok"
    THEN [probe[d] EXCEPT
           !.status = IF outcome = "ok" THEN "Healthy" ELSE "Unhealthy",
           !.observedAt = probe[c].firedAt,
           !.running = FALSE,
           !.nextAt = IF probe[d].status = "Pending" THEN now + CheckInterval
                                                     ELSE @]
    ELSE probe[d]

ResultAfter(c, d, outcome) ==
  IF d = c
    THEN [probe[c] EXCEPT
           !.status = IF outcome = "ok" THEN "Healthy" ELSE "Unhealthy",
           !.observedAt = probe[c].firedAt,
           !.running = FALSE,
           !.nextAt = IF probe[c].status = "Pending" THEN now + CheckInterval
                                                     ELSE @]
    ELSE probe[d]

\* The execution of check c returns and its result is stored.
ProbeFinish(c) ==
  /\ Alive
  /\ Registered(c)
  /\ probe[c].running
  /\ ProbeOutcome(c) # "blocked"
  /\ probe' = [d \in CheckNames |-> ResultAfter(c, d, ProbeOutcome(c))]
  /\ UNCHANGED <<mainVars, confVars, now, dep, req, resp, resVars, srvVars, evtVars,
                 elapsed, histVars>>

\* The registry once check c is deregistered.
DeregisterOneDropsAll(c) == [d \in CheckNames |-> Removed(d)]

DeregisterOne(c) == [d \in CheckNames |-> IF d = c THEN Removed(c) ELSE probe[d]]

\* a.health.Deregister(name), called by a holder of the registry that
\* GetDependencies hands out: the check's timer is stopped and its result
\* removed.
Deregister(c) ==
  /\ Alive
  /\ Registered(c)
  /\ checks' = checks \ {c}
  /\ probe' = DeregisterOne(c)
  /\ UNCHANGED <<mainVars, confVars, now, dep, req, resp, db, redis, upgrader,
                 extIdx, srvVars, evtVars, elapsed, histVars>>

\* The execution of a check that was deregistered meanwhile returns: its
\* result is dropped.
OrphanReturn(c) ==
  /\ Alive
  /\ ~Registered(c)
  /\ probe[c].running
  /\ ProbeOutcome(c) # "blocked"
  /\ probe' = [probe EXCEPT ![c] = NoProbe]
  /\ UNCHANGED <<mainVars, confVars, now, dep, req, resp, resVars, srvVars, evtVars,
                 elapsed, histVars>>

\* A second passes.  Timers fire on time and a Ping that is answered is
\* answered within the second, so time passes only when no timer is due and
\* every running execution is blocked.
ClockTick ==
  /\ Alive
  /\ now < MaxTime
  /\ \A c \in CheckNames :
       IF probe[c].running THEN ProbeOutcome(c) = "blocked"
                           ELSE Registered(c) => probe[c].nextAt > now
  /\ now' = now + 1
  /\ UNCHANGED <<mainVars, confVars, probe, dep, req, resp, resVars, srvVars,
                 evtVars, elapsed, histVars>>

\* The server of a collaborator or of a configured URL starts or stops
\* answering.
DepChange ==
  /\ \E c \in Collaborators \cup {HTTPCheckName(u) : u \in Range(cfg.externalChecks)},
          v \in {"up", "down", "hang"} :
       /\ v # dep[c]
       /\ dep' = [dep EXCEPT ![c] = v]
  /\ UNCHANGED <<mainVars, confVars, now, probe, req, resp, resVars, srvVars,
                 evtVars, elapsed, histVars>>

----------------------------------------------------------------------------
\* The probe endpoints GET /healthz, /readiness and /liveness.  A response body
\* is the set of the <<key, value>> pairs of the JSON object that is written.

Endpoints == {"healthz", "readiness", "liveness"}

\* a.health.Results(), second value: every registered check's latest result is
\* healthy (a check that has not run yet is not).
AggregateAnyHealthy ==
  \E c \in CheckNames : probe[c].status = "Healthy"

Aggregate ==
  \A c \in CheckNames : Registered(c) => probe[c].status = "Healthy"

\* A connection is accepted and the handler of endpoint ep starts.
AcceptProbeRequest(ep) ==
  /\ Accepting
  /\ req = "none"
  /\ inflight < MaxInflight
  /\ req' = ep
  /\ resp' = NoResp
  /\ inflight' = inflight + 1
  /\ UNCHANGED <<mainVars, confVars, now, probe, dep, resVars, listener, inShutdown,
                 srv, errChan, everServing, evtVars, elapsed, histVars>>

\* healthzHandler: status code and body for the verdict of a.health.Results().
HealthzResponseAlwaysOK(healthy) ==
  [code |-> 200,
   body |-> {<<"status", IF healthy THEN "healthy" ELSE "unhealthy">>}]

HealthzResponse(healthy) ==
  IF ~healthy
    THEN [code |-> 503, body |-> {<<"status", "unhealthy">>}]
    ELSE [code |-> 200, body |-> {<<"status", "healthy">>}]

healthzHandler ==
  /\ Alive
  /\ req = "healthz"
  /\ resp' = [ep |-> "healthz", code |-> HealthzResponse(Aggregate).code,
              body |-> HealthzResponse(Aggregate).body]
  /\ req' = "none"
  /\ inflight' = inflight - 1
  /\ UNCHANGED <<mainVars, confVars, now, probe, dep, resVars, listener, inShutdown,
                 srv, errChan, everServing, evtVars, elapsed, histVars>>

\* readinessHandler: its context has a deadline (context.WithTimeout).
PingContextUnbounded == FALSE

PingContextBounded == TRUE

\* readinessHandler: the outcome of the Ping of collaborator c, "skip" when the
\* client is nil.
ReadinessPing(c) ==
  IF Client(c) = "nil" THEN "skip" ELSE Ping(c, PingContextBounded)

\* readinessHandler: the local variable ready after the Pings returned pd
\* (database) and pr (Redis).
ReadinessReadyWithExternal(pd, pr) ==
  /\ pd \in {"skip", "ok"}
  /\ pr \in {"skip", "ok"}
  /\ \A c \in CheckNames \ Collaborators : probe[c].status # "Unhealthy"

ReadinessReadyFromRegistry(pd, pr) ==
  \A c \in Collaborators : Registered(c) => probe[c].status = "Healthy"

ReadinessReady(pd, pr) == pd \in {"skip", "ok"} /\ pr \in {"skip", "ok"}

\* readinessHandler: the local map checks, as the set of its entries.
ReadinessChecks(pd, pr) ==
  {<<"database", IF pd = "ok" THEN "healthy" ELSE "unhealthy">> : x \in
     IF pd = "skip" THEN {} ELSE {1}}
  \cup
  {<<"redis", IF pr = "ok" THEN "healthy" ELSE "unhealthy">> : x \in
     IF pr = "skip" THEN {} ELSE {1}}

\* readinessHandler: status code and body.  The map response, which holds
\* ready and checks, is built and not written: the body holds ready only.
ReadinessResponse(pd, pr) ==
  [code |-> IF ~ReadinessReady(pd, pr) THEN 503 ELSE 200,
   body |-> IF ReadinessReady(pd, pr) THEN {<<"ready", "true">>}
                                      ELSE {<<"ready", "false">>}]

readinessHandler ==
  /\ Alive
  /\ req = "readiness"
  /\ \A c \in Collaborators : ReadinessPing(c) # "blocked"
  /\ LET r == ReadinessResponse(ReadinessPing("database"), ReadinessPing("redis"))
     IN  resp' = [ep |-> "readiness", code |-> r.code, body |-> r.body]
  /\ req' = "none"
  /\ inflight' = inflight - 1
  /\ UNCHANGED <<mainVars, confVars, now, probe, dep, resVars, listener, inShutdown,
                 srv, errChan, everServing, evtVars, elapsed, histVars>>

\* livenessHandler: status code and body.
LivenessResponseIfDatabaseUp ==
  IF dep["database"] = "up" /\ db = "open"
    THEN [code |-> 200, body |-> {<<"alive", "true">>}]
    ELSE [code |-> 503, body |-> {<<"alive", "false">>}]

LivenessResponse == [code |-> 200, body |-> {<<"alive", "true">>}]

livenessHandler ==
  /\ Alive
  /\ req = "liveness"
  /\ resp' = [ep |-> "liveness", code |-> LivenessResponse.code,
              body |-> LivenessResponse.body]
  /\ req' = "none"
  /\ inflight' = inflight - 1
  /\ UNCHANGED <<mainVars, confVars, now, probe, dep, resVars, listener, inShutdown,
                 srv, errChan, everServing, evtVars, elapsed, histVars>>

\* The handler of the request in flight returns in this step.
Responded(ep) == req = ep /\ req' = "none"

----------------------------------------------------------------------------
\* The generation is ready and serving, blocked in the select of Run; it was
\* started with the checks cs (of "database", "redis" and the HTTP check of
\* u1), which were registered t seconds ago and have not run yet; the servers
\* behind the checks are in any state.
ServingWith(t, cs) ==
  /\ LoadIdle
  /\ pc = "run_select"
  /\ call = "idle"
  /\ cfg = [healthEnabled |-> TRUE, databaseCheck |-> "database" \in cs,
            redisCheck |-> "redis" \in cs,
            externalChecks |-> IF HTTPCheckName("u1") \in cs THEN <<"u1">>
                                                             ELSE <<>>]
  /\ db = "open"
  /\ redis = "open"
  /\ upgrader = "running"
  /\ checks = cs
  /\ extIdx = Len(cfg.externalChecks) + 1
  /\ listener = "open"
  /\ inShutdown = FALSE
  /\ srv = "serving"
  /\ errChan = "empty"
  /\ notify = TRUE
  /\ sigChan = FALSE
  /\ upgExit = FALSE
  /\ hup = FALSE
  /\ successor = "none"
  /\ inflight = 0
  /\ elapsed = 0
  /\ startLog = <<"open_db", "open_redis">>
                  \o [i \in 1..Cardinality(cs) |-> "register"]
                  \o <<"listen", "serve", "ready">>
  /\ sdLog = <<>>
  /\ sdErrs = {}
  /\ readyAt = "serving"
  /\ everServing = TRUE
  /\ exitErr = "none"
  /\ now = t
  /\ probe = [c \in CheckNames |->
                IF c \in cs
                  THEN [status |-> "Pending", observedAt |-> 0, firedAt |-> 0,
                        nextAt |-> DelayOf(c), running |-> FALSE]
                  ELSE NoProbe]
  /\ dep \in {d \in [CheckNames -> {"up", "down", "hang"}] :
                \A c \in CheckNames \ cs : d[c] = "up"}
  /\ req = "none"
  /\ resp = NoResp

\* The same, started with the database and the redis check.
ServingState(t) == ServingWith(t, Collaborators)

\* Health checking while the process serves, from the registration on.
InitHealth == ServingState(0)

NextHealth ==
  \/ \E c \in CheckNames : ProbeStart(c)
  \/ \E c \in CheckNames : ProbeFinish(c)
  \/ ClockTick
  \/ DepChange
  \/ \E ep \in Endpoints : AcceptProbeRequest(ep)
  \/ healthzHandler
  \/ readinessHandler
  \/ livenessHandler

SpecHealth == InitHealth /\ [][NextHealth]_vars

\* /readiness while the process serves with health.database_check and
\* health.redis_check switched off, with and without a URL in
\* health.external_checks.
InitReadiness ==
  \E cs \in SUBSET {HTTPCheckName("u1")} : ServingWith(0, cs)

SpecReadiness == InitReadiness /\ [][NextHealth]_vars

\* The registry while the process serves, started with the database check and
\* the HTTP check of one URL, from the registration on; holders of the registry
\* may deregister a check.
InitRegistry == ServingWith(0, {"database", HTTPCheckName("u1")})

NextRegistry ==
  \/ \E c \in CheckNames : ProbeStart(c)
  \/ \E c \in CheckNames : ProbeFinish(c)
  \/ \E c \in CheckNames : Deregister(c)
  \/ \E c \in CheckNames : OrphanReturn(c)
  \/ ClockTick
  \/ DepChange

SpecRegistry == InitRegistry /\ [][NextRegistry]_vars

\* The process started with a configuration that lists one URL twice in
\* health.external_checks.
InitDuplicate ==
  InitWith([healthEnabled |-> TRUE, databaseCheck |-> TRUE, redisCheck |-> TRUE,
            externalChecks |-> <<"u1", "u1">>])

SpecDuplicate == InitDuplicate /\ [][Next]_vars

----------------------------------------------------------------------------
\* configs.Load: the sources are loaded into k one after the other, a later
\* load overriding what an earlier one set, then k is unmarshalled into C and C
\* is validated.

\* What file f holds: the base file may set app.environment and the keys of
\* baseKeys, config.prod.yaml sets app.environment to "production", and every
\* environment file sets the keys of envKeys; a value names where it is from,
\* a port by a number of its own.
PortIn(f) ==
  CASE f = BaseConfigFile -> "8081"
    [] f = "configs/config.prod.yaml" -> "9001"
    [] f = "configs/config.production.yaml" -> "9002"
    [] OTHER -> "9003"

FileContent(f, baseEnv, baseKeys, envKeys) ==
  [key \in KoanfKeys |->
     IF f = BaseConfigFile
       THEN IF key = AppEnvironment THEN baseEnv
            ELSE IF key \notin baseKeys THEN "unset"
            ELSE IF key = HTTPPort THEN PortIn(f) ELSE "base"
       ELSE IF key = AppEnvironment
              THEN IF f = "configs/config.prod.yaml" THEN "production"
                                                     ELSE "unset"
              ELSE IF key \notin envKeys THEN "unset"
              ELSE IF key = HTTPPort THEN PortIn(f) ELSE f]

\* The process at its start, with some files and some environment variables.
InitConfig ==
  /\ ProcessStart([healthEnabled |-> TRUE, databaseCheck |-> TRUE,
                   redisCheck |-> TRUE, externalChecks |-> <<>>])
  /\ environ \in {e \in [EnvNames -> {"unset", "production", "envvar", "8082"}] :
                    \A s \in EnvNames :
                      e[s] \in {"unset",
                                CASE EnvKey(s) = AppEnvironment -> "production"
                                  [] EnvKey(s) = HTTPPort -> "8082"
                                  [] OTHER -> "envvar"}}
  /\ \E existing \in SUBSET ConfigFiles, baseEnv \in {"unset", "production"},
        baseKeys \in SUBSET {HTTPPort, AuthJWTSecret},
        envKeys \in SUBSET {HTTPPort, AuthJWTSecret} :
       files = [f \in existing |-> FileContent(f, baseEnv, baseKeys, envKeys)]
  /\ k = NoLayer
  /\ env = ""
  /\ C = [key \in ConfigKeys |-> "unset"]
  /\ lpc = "defaults"

\* koanf.Load: the keys that layer sets override those of k.
Merge(layer) ==
  [key \in KoanfKeys |-> IF layer[key] # "unset" THEN layer[key] ELSE k[key]]

\* loadConfigFile(path): a file that does not exist is an error, which Load
\* logs as a warning, and k stays as it is.
loadConfigFile(path) ==
  IF path \in DOMAIN files THEN Merge(files[path]) ELSE k

\* What env.Provider yields: the variables that are set, each under the key
\* that the callback makes of its name.
EnvLayer ==
  [key \in KoanfKeys |->
     IF \E s \in EnvNames : EnvKey(s) = key /\ environ[s] # "unset"
       THEN environ[CHOOSE s \in EnvNames : EnvKey(s) = key /\ environ[s] # "unset"]
       ELSE "unset"]

\* Load, step 1: loadDefaults()
loadDefaults ==
  /\ Alive
  /\ lpc = "defaults"
  /\ k' = Merge(Defaults)
  /\ lpc' = "base"
  /\ UNCHANGED <<mainVars, cfg, environ, files, env, C, hlthVars, resVars,
                 srvVars, evtVars, elapsed, histVars>>

\* Load, step 2: loadConfigFile("configs/config.yaml")
LoadBaseFile ==
  /\ Alive
  /\ lpc = "base"
  /\ k' = loadConfigFile(BaseConfigFile)
  /\ lpc' = "envfile"
  /\ UNCHANGED <<mainVars, cfg, environ, files, env, C, hlthVars, resVars,
                 srvVars, evtVars, elapsed, histVars>>

\* Load, step 3: env := k.String("app.environment"), then the file of that
\* name is loaded.
LoadEnvFile ==
  /\ Alive
  /\ lpc = "envfile"
  /\ env' = k[AppEnvironment]
  /\ k' = loadConfigFile(EnvConfigFile(env'))
  /\ lpc' = "envvars"
  /\ UNCHANGED <<mainVars, cfg, environ, files, C, hlthVars, resVars,
                 srvVars, evtVars, elapsed, histVars>>

\* Load, step 4: loadEnvVars()
loadEnvVars ==
  /\ Alive
  /\ lpc = "envvars"
  /\ k' = Merge(EnvLayer)
  /\ lpc' = "unmarshal"
  /\ UNCHANGED <<mainVars, cfg, environ, files, env, C, hlthVars, resVars,
                 srvVars, evtVars, elapsed, histVars>>

\* Load, step 5: C = &Config{}, then k.Unmarshal("", C) fills the fields from
\* the keys of their koanf tags; a port that is no number is an error, which
\* Load returns, the field staying zero.
Unmarshal ==
  /\ Alive
  /\ lpc = "unmarshal"
  /\ IF k[HTTPPort] \in Numerals
       THEN /\ C' = [key \in ConfigKeys |-> k[key]]
            /\ lpc' = "validate"
       ELSE /\ C' = [key \in ConfigKeys |->
                       IF key = HTTPPort THEN "0" ELSE k[key]]
            /\ lpc' = "failed"
  /\ UNCHANGED <<mainVars, cfg, environ, files, k, env, hlthVars, resVars,
                 srvVars, evtVars, elapsed, histVars>>

\* validate(): whether it returns an error for the configuration c.
RejectedButPortZero(c) ==
  \/ c[AppName] = ""
  \/ Atoi(c[HTTPPort]) < 0 \/ Atoi(c[HTTPPort]) > 65535
  \/ c[DatabaseDriver] = ""
  \/ c[AuthJWTSecret] = "" /\ c[AppEnvironment] = "production"
  \/ c[TLSEnabled] = "true" /\ (c[TLSCertFile] = "" \/ c[TLSKeyFile] = "")

Rejected(c) ==
  \/ c[AppName] = ""
  \/ Atoi(c[HTTPPort]) <= 0 \/ Atoi(c[HTTPPort]) > 65535
  \/ c[DatabaseDriver] = ""
  \/ c[AuthJWTSecret] = "" /\ c[AppEnvironment] = "production"
  \/ c[TLSEnabled] = "true" /\ (c[TLSCertFile] = "" \/ c[TLSKeyFile] = "")

\* Load, step 6: validate(); Load returns its error, or nil.
validate ==
  /\ Alive
  /\ lpc = "validate"
  /\ lpc' = IF Rejected(C) THEN "failed" ELSE "done"
  /\ UNCHANGED <<mainVars, cfg, environ, files, k, env, C, hlthVars, resVars,
                 srvVars, evtVars, elapsed, histVars>>

NextConfig ==
  \/ loadDefaults
  \/ LoadBaseFile
  \/ LoadEnvFile
  \/ loadEnvVars
  \/ Unmarshal
  \/ validate

SpecConfig == InitConfig /\ [][NextConfig]_vars

\* What the base file holds when it sets the validated keys to the values of v.
Settings(v) ==
  [key \in KoanfKeys |-> IF key \in DOMAIN v THEN v[key] ELSE "unset"]

\* New has called Load, and Load has loaded its sources: the base file sets
\* the keys that validate looks at, to valid and to invalid values.
InitValidate ==
  /\ ProcessStart([healthEnabled |-> TRUE, databaseCheck |-> TRUE,
                   redisCheck |-> TRUE, externalChecks |-> <<>>])
  /\ environ = [s \in EnvNames |-> "unset"]
  /\ \E name \in {"", "medical-rep-api"}, environment \in {"development", "production"},
        port \in {"-1", "0", "8080", "65536", "http"},
        driver \in {"", "postgres"}, secret \in {"", "s3cret"},
        tls \in {"false", "true"}, cert \in {"", "app.crt"}, pkey \in {"", "app.key"} :
       LET v == (AppName :> name) @@ (AppEnvironment :> environment)
                  @@ (HTTPPort :> port) @@ (DatabaseDriver :> driver)
                  @@ (AuthJWTSecret :> secret) @@ (TLSEnabled :> tls)
                  @@ (TLSCertFile :> cert) @@ (TLSKeyFile :> pkey)
       IN  /\ files = (BaseConfigFile :> Settings(v))
           /\ k = [key \in KoanfKeys |->
                     IF Settings(v)[key] # "unset" THEN Settings(v)[key]
                                                   ELSE Defaults[key]]
           /\ env = environment
  /\ C = [key \in ConfigKeys |-> "unset"]
  /\ lpc = "unmarshal"

\* The rest of Load, and what the process does after it.
NextValidate ==
  \/ Unmarshal
  \/ validate
  \/ Next

SpecValidate == InitValidate /\ [][NextValidate]_vars

\* The probe endpoints from the moment the first executions of the checks are
\* due until the process has shut down.
InitServe == ServingState(InitialDelay)

NextServe ==
  \/ \E c \in CheckNames : ProbeStart(c)
  \/ \E c \in CheckNames : ProbeFinish(c)
  \/ \E c \in CheckNames : OrphanReturn(c)
  \/ DepChange
  \/ \E ep \in Endpoints : AcceptProbeRequest(ep)
  \/ healthzHandler
  \/ readinessHandler
  \/ livenessHandler
  \/ ServeReturn \/ TermSignal
  \/ SelectServeResult \/ SelectSignal
  \/ ServerShutdownBegin \/ ServerShutdownReturn \/ DeregisterAll
  \/ CloseDatabaseBegin \/ CloseDatabaseReturn
  \/ CloseRedisBegin \/ CloseRedisReturn \/ UpgraderStop
  \/ Tick

SpecServe == InitServe /\ [][NextServe]_vars

----------------------------------------------------------------------------
\* Properties of Shutdown.

\* Position of a teardown call in the documented order: stop accepting and
\* drain (both a.server.Shutdown), DeregisterAll, database close, Redis close,
\* upgrader stop.
TeardownRank(s) ==
  CASE s = "sd_server" -> 1
    [] s = "sd_dereg" -> 2
    [] s = "sd_db" -> 3
    [] s = "sd_redis" -> 4
    [] s = "sd_upg" -> 5

\* C1: the teardown calls begin in the order server shutdown (which closes the
\* listener first and then waits for the requests in flight), DeregisterAll,
\* database close, Redis close, upgrader stop; a call begins only after the one
\* before it has returned, so each call's effect is in place when the next begins.
C1_ShutdownOrder ==
  /\ \A i, j \in 1..Len(sdLog) :
       i < j => TeardownRank(sdLog[i]) < TeardownRank(sdLog[j])
  /\ call = "active" => Len(sdLog) > 0 /\ sdLog[Len(sdLog)] = pc
  /\ Len(sdLog) >= 1 => listener = "closed" /\ inShutdown
  /\ (Len(sdLog) >= 2 /\ "sd_server" \notin sdErrs) => inflight = 0
  /\ "sd_server" \in sdErrs => elapsed >= ShutdownTimeout
  /\ db = "closed" => checks = {}
  /\ redis = "closed" => db # "open"
  /\ upgrader = "stopped" => db # "open" /\ redis # "open" /\ checks = {}

\* Shutdown ran to its end with both collaborators present.
C1_Witness ==
  /\ pc = "done"
  /\ sdLog = <<"sd_server", "sd_dereg", "sd_db", "sd_redis", "sd_upg">>

\* C2: while Shutdown is executing, no more than the shutdown timeout has
\* passed since it began.
C2_ShutdownWithinDeadline == InShutdown => elapsed <= ShutdownTimeout

\* The teardown calls Shutdown makes for the collaborators it holds.
ExpectedCalls ==
  {"sd_server", "sd_dereg", "sd_upg"}
    \cup (IF db = "nil" THEN {} ELSE {"sd_db"})
    \cup (IF redis = "nil" THEN {} ELSE {"sd_redis"})

\* C3: whichever teardown calls return an error, Shutdown makes every call
\* before it returns: the returned errors never cut the sequence short.
C3_ErrorsDoNotStopShutdown ==
  /\ pc = "done" => Range(sdLog) = ExpectedCalls
  /\ \A s \in sdErrs :
       \/ pc = s
       \/ pc = "done"
       \/ /\ InShutdown
          /\ TeardownRank(pc) > TeardownRank(s)

\* Shutdown returned after the drain, the database close and the Redis close
\* each returned an error.
C3_Witness ==
  /\ pc = "done"
  /\ sdErrs = {"sd_server", "sd_db", "sd_redis"}
  /\ upgrader = "stopped"

\* C4: when Run has returned after ready was signalled, the whole Shutdown
\* sequence was executed, whichever exit event Run received.
C4_ExitEventsShutDown ==
  (pc \in {"done", "exit1"} /\ readyAt # "none")
    => {"sd_server", "sd_dereg", "sd_upg"} \subseteq Range(sdLog)

\* The lifecycle state of the orchestrator.
LifecycleState ==
  CASE InShutdown -> "ShuttingDown"
    [] pc = "done" -> "Stopped"
    [] readyAt # "none" -> "Ready"
    [] OTHER -> "Init"

\* No teardown call was made twice.
NoTeardownTwice ==
  \A i, j \in 1..Len(sdLog) : i < j => sdLog[i] # sdLog[j]

\* The lifecycle moves only along Init -> Ready -> ShuttingDown -> Stopped.
LifecycleStep ==
  LifecycleState' # LifecycleState =>
    <<LifecycleState, LifecycleState'>> \in
      {<<"Init", "Ready">>, <<"Ready", "ShuttingDown">>,
       <<"ShuttingDown", "Stopped">>}

\* C5: in one generation no teardown call is executed a second time, whatever
\* exit events are pending and in whatever order they arrived, and the
\* lifecycle only moves Init -> Ready -> ShuttingDown -> Stopped.
C5_ShutdownOnce == []NoTeardownTwice /\ [][LifecycleStep]_vars

\* Shutdown has returned while a serve error, a second signal and the upgrade
\* exit are all still pending.
C5_Witness ==
  /\ pc = "done"
  /\ errChan = "err"
  /\ sigChan
  /\ upgExit
  /\ Len(sdLog) = 5

----------------------------------------------------------------------------
\* Properties of startup.

\* Position of a startup step in the order of section 4.3 of the specification:
\* acquire the listener, start serving, open the collaborators, register the
\* health checks, signal ready.
DocumentedRank(s) ==
  CASE s = "listen" -> 1
    [] s = "serve" -> 2
    [] s \in {"open_db", "open_redis"} -> 3
    [] s = "register" -> 4
    [] s = "ready" -> 5

\* Position of a startup step in the order New and Run execute: open the
\* database, open Redis, register the health checks, acquire the listener,
\* start serving, signal ready.
ExecutedRank(s) ==
  CASE s = "open_db" -> 1
    [] s = "open_redis" -> 2
    [] s = "register" -> 3
    [] s = "listen" -> 4
    [] s = "serve" -> 5
    [] s = "ready" -> 6

C7_ReadyOnlyWhileServing == readyAt \in {"none", "serving"}

\* The process exits non-zero on a fatal startup failure: New or Listen
\* returned an error, or Serve returned an error without ever serving.
StartupFailed ==
  /\ pc = "exit1"
  /\ \/ exitErr \in {"config", "logger", "database", "redis", "upgrader", "listen"}
     \/ exitErr = "serve" /\ ~everServing

\* C8: after a fatal startup failure ready was never signalled to the parent.
C8_NoReadyOnStartupFailure == StartupFailed => readyAt = "none"

\* C9: a failure to create or register a health check never makes startup fail.
C9_CheckFailureNonFatal == exitErr # "health"

\* C10: once the upgrade-trigger signal has been delivered to the running
\* generation, a successor generation has been spawned and the generation that
\* received the signal is still running.
C10_UpgradeSignalHandsOff == hup => successor # "none" /\ pc # "killed"

----------------------------------------------------------------------------
\* Properties of a handoff and of draining.

NoRebind == listener = "closed" => listener' = "closed"

Accepted == inflight' > inflight

\* The server drains: Shutdown was called on it and the process runs.
Draining == Alive /\ inShutdown

\* C12: a generation accepts a connection only while it is listening (Serve
\* runs on the open listener and Shutdown was not called); once draining it
\* accepts none, and while a request is in flight before the shutdown deadline
\* server.Shutdown keeps waiting and no collaborator has been closed, so the
\* request can complete.
C12_DrainLetsRequestsFinish ==
  /\ [][Accepted => Accepting]_vars
  /\ [][Draining => ~Accepted]_vars
  /\ []((Draining /\ inflight > 0 /\ elapsed < ShutdownTimeout)
          => (pc = "sd_server" /\ call = "active"
              /\ db # "closed" /\ redis # "closed"))

\* The server drains with requests in flight and the deadline has not passed.
C12_Witness ==
  /\ Draining
  /\ inflight = MaxInflight
  /\ elapsed >= 1
  /\ elapsed < ShutdownTimeout

----------------------------------------------------------------------------
\* Properties of the probe endpoints.

\* C13: GET /healthz answers 200 with status "healthy" when the verdict of the
\* registry is healthy (every registered check's latest result is healthy) and
\* 503 with status "unhealthy" otherwise; no other response is produced.
C13_HealthzMirrorsAggregate ==
  [][Responded("healthz") =>
       IF \A c \in CheckNames : probe[c].status \in {"none", "Healthy"}
         THEN resp' = [ep |-> "healthz", code |-> 200,
                       body |-> {<<"status", "healthy">>}]
         ELSE resp' = [ep |-> "healthz", code |-> 503,
                       body |-> {<<"status", "unhealthy">>}]]_vars

\* /healthz answered 200 after both checks had run.
C13_Witness ==
  /\ resp.ep = "healthz"
  /\ resp.code = 200
  /\ now >= InitialDelay

\* The latest results of the checks named after the collaborators are healthy.
CriticalHealthy ==
  \A c \in Collaborators : Registered(c) => probe[c].status = "Healthy"

CollaboratorsAnswer ==
  \A c \in Collaborators :
    Client(c) # "nil" => (Client(c) = "open" /\ dep[c] = "up")

Keys(body) == {p[1] : p \in body}

\* C15 (does not hold): the body of every /readiness response carries the
\* ready flag and the map of the checks.
C15_BodyHasReadyAndChecks ==
  resp.ep = "readiness" => {"ready", "checks"} \subseteq Keys(resp.body)

\* C16: from Ready until Stopped every answer of GET /liveness is 200 with
\* alive true, whatever the state of the database, of Redis and of the
\* registry is, and the handler of a /liveness request can always answer while
\* the process runs.
C16_LivenessAlwaysAlive ==
  /\ [][Responded("liveness") =>
          resp' = [ep |-> "liveness", code |-> 200,
                   body |-> {<<"alive", "true">>}]]_vars
  /\ []((req = "liveness" /\ Alive) => ENABLED livenessHandler)

\* /liveness was answered during Shutdown, after the drain had timed out with
\* the request in flight and the database had been closed, Redis being down.
C16_Witness ==
  /\ resp.ep = "liveness"
  /\ resp.code = 200
  /\ "sd_server" \in sdErrs
  /\ db = "closed"
  /\ dep["redis"] = "down"

\* A collaborator whose client is not nil fails: its client is closed or its
\* server is down or does not answer.
SomeCollaboratorFails ==
  \E c \in Collaborators :
    Client(c) # "nil" /\ (Client(c) = "closed" \/ dep[c] # "up")

\* C17: while the process runs, every request to /healthz, /readiness or
\* /liveness ends with status 200 or 503: its handler can always return, also
\* when a collaborator's Ping returns an error or gets no answer, and
\* /readiness then answers 503.
C17_ProbeEndpointsAnswer ==
  /\ [](resp.ep # "none" => resp.code \in {200, 503})
  /\ []((req # "none" /\ Alive) =>
          ENABLED (healthzHandler \/ readinessHandler \/ livenessHandler))
  /\ [][(Responded("readiness") /\ SomeCollaboratorFails)
          => resp'.code = 503]_vars

\* /readiness answered 503 and the database server does not answer.
C17_Witness ==
  /\ resp.ep = "readiness"
  /\ resp.code = 503
  /\ db = "open"
  /\ dep["database"] = "hang"
  /\ dep["redis"] = "up"

----------------------------------------------------------------------------
\* Properties of the health registry and of the execution of the checks.

\* The execution of check c starts, respectively returns, in this step.
Fired(c) == ~probe[c].running /\ probe'[c].running
Returned(c) == probe[c].running /\ ~probe'[c].running

\* C18: the verdict read from the registry is computed from the latest result
\* of every registered check: false while some latest result is Unhealthy,
\* true when all are Healthy.  A result changes only when an execution of its
\* check returns; the first execution of the database and redis checks starts
\* InitialDelay after the registration and every later one at least
\* CheckInterval after the one before, so a failed first run shows as
\* Unhealthy (verdict false) until the second run, one period later, succeeds.
C18_AggregateFromLatest ==
  /\ []((\E c \in CheckNames : probe[c].status = "Unhealthy") => ~Aggregate)
  /\ []((\A c \in CheckNames : probe[c].status \in {"none", "Healthy"})
          => Aggregate)
  /\ [][\A c \in CheckNames :
          /\ probe'[c].status # probe[c].status => Returned(c)
          /\ Fired(c) =>
               IF probe[c].status = "Pending"
                 THEN now = InitialDelay
                 ELSE now >= probe[c].firedAt + CheckInterval]_vars

\* One second after the second run of the database check, which succeeded one
\* period after the first, /healthz reads a healthy verdict.
C18_Witness ==
  /\ now = InitialDelay + CheckInterval + 1
  /\ probe["database"].status = "Healthy"
  /\ probe["database"].observedAt = InitialDelay + CheckInterval
  /\ Aggregate
  /\ resp.ep = "healthz"
  /\ resp.code = 200

C20_FailedRunThenNextPeriod ==
  /\ [](\A c \in CheckNames :
          probe[c].running => now <= probe[c].firedAt + HealthTimeout)
  /\ [][\A c \in CheckNames :
          /\ (Returned(c) /\ ProbeOutcome(c) # "ok")
               => probe'[c].status = "Unhealthy"
          /\ (Fired(c) /\ probe[c].status # "Pending")
               => now >= probe[c].firedAt + CheckInterval
          /\ (Registered(c) /\ Registered(c)')
               => probe'[c].observedAt >= probe[c].observedAt]_vars


\* C21 (does not hold): every execution of every registered check, of
\* "database", of "redis" and of each external URL, is bounded by
\* health.timeout: no execution of a registered check is still running after
\* health.timeout has passed since it started.
C21_EveryRunBounded ==
  \A c \in checks :
    probe[c].running => now <= probe[c].firedAt + HealthTimeout


\* The checks that the configuration and the clients call for.
ConfiguredChecks ==
  IF ~cfg.healthEnabled THEN {}
  ELSE (IF cfg.databaseCheck /\ db # "nil" THEN {"database"} ELSE {})
         \cup (IF cfg.redisCheck /\ redis # "nil" THEN {"redis"} ELSE {})
         \cup {HTTPCheckName(u) : u \in Range(cfg.externalChecks)}

\* New has returned the App and Shutdown has not been called.
Constructed ==
  pc \in {"run_listen", "run_go", "run_ready", "run_notify", "run_select"}

\* C22: the set of registered checks is determined by the configuration:
\* "database" iff the database check is enabled and the database client
\* exists, "redis" iff the redis check is enabled and the redis client exists,
\* and one check for each configured external URL; with health disabled no
\* check is registered.
C22_RegisteredFromConfig == Constructed => checks = ConfiguredChecks

C22_Witness ==
  /\ pc = "run_select"
  /\ cfg.healthEnabled /\ cfg.databaseCheck /\ cfg.redisCheck
  /\ db = "nil" /\ redis = "open"
  /\ cfg.externalChecks = <<"u1">>
  /\ checks = {"redis", HTTPCheckName("u1")}


\* setupHealthChecks is about to register a name that is registered already.
DuplicateRegistration ==
  /\ pc = "hc_ext"
  /\ extIdx <= Len(cfg.externalChecks)
  /\ HTTPCheckName(cfg.externalChecks[extIdx]) \in checks

\* C23 (does not hold): registering a name that is registered already fails
\* with an error that is returned to the caller and never ends the process:
\* the registration is not counted as made, and the process lives on.
C23_DuplicateRejected ==
  [][DuplicateRegistration => (startLog' = startLog /\ Alive')]_vars


\* Check c is deregistered in this step.
Deregistered(c) == c \in checks /\ c \notin checks'

Gone(c) == c \notin checks /\ ~probe[c].running

C26_DeregisterAllAwaits ==
  [][/\ (pc = "sd_dereg" /\ pc' # "sd_dereg")
          => \/ \A c \in CheckNames : ~probe'[c].running
             \/ elapsed' >= ShutdownTimeout
     /\ \A c \in CheckNames : Fired(c) => "sd_dereg" \notin Range(sdLog)]_vars


\* The variable named s is the one that the naming convention
\* MEDICAL_REP_<SECTION>_<KEY> gives to key: its words after the prefix are
\* the words of the key, in capitals.
Flatten(key) ==
  IF Len(key) = 2 THEN key[1] \o key[2] ELSE key[1] \o key[2] \o key[3]

NamedFor(s, key) ==
  /\ SubSeq(s, 1, Len(Prefix)) = Prefix
  /\ [i \in 1..(Len(s) - Len(Prefix)) |-> ToLower(s[i + Len(Prefix)])]
       = Flatten(key)

\* The layers of the sources from the highest priority to the lowest, as the
\* sources define key: the environment variable named for it, the
\* environment file that Load chose, the base file, the defaults.
SourcesOf(key) ==
  <<IF \E s \in EnvNames : NamedFor(s, key) /\ environ[s] # "unset"
      THEN environ[CHOOSE s \in EnvNames : NamedFor(s, key)]
      ELSE "unset",
    IF EnvConfigFile(env) \in DOMAIN files
      THEN files[EnvConfigFile(env)][key] ELSE "unset",
    IF BaseConfigFile \in DOMAIN files
      THEN files[BaseConfigFile][key] ELSE "unset",
    Defaults[key]>>

\* The value of the first source that defines the key.
HighestPriority(key) ==
  LET src == SourcesOf(key)
  IN  src[CHOOSE i \in 1..Len(src) :
            src[i] # "unset" /\ \A j \in 1..(i - 1) : src[j] = "unset"]

\* C28 (does not hold): after Load, the value in effect for every key is the
\* one of the highest-priority source that defines the key, the order being
\* environment variables, environment file, base file, defaults.
C28_HighestPrioritySource ==
  lpc = "done" => \A key \in ConfigKeys : C[key] = HighestPriority(key)

\* C29 (does not hold): with MEDICAL_REP_APP_ENVIRONMENT=production, and
\* app.environment set by no file, the environment file that Load loads is
\* config.prod.yaml.
C29_EnvVarSelectsProdFile ==
  (/\ lpc \in {"envvars", "unmarshal", "validate", "done", "failed"}
   /\ environ[Prefix \o <<"APP", "ENVIRONMENT">>] = "production"
   /\ \A f \in DOMAIN files : files[f][AppEnvironment] = "unset")
    => EnvConfigFile(env) = "configs/config.prod.yaml"

\* C30 (does not hold): every variable MEDICAL_REP_<SECTION>_<KEY> that is set
\* sets its key, also when the key's name holds an underscore:
\* MEDICAL_REP_AUTH_JWT_SECRET sets auth.jwt_secret as MEDICAL_REP_HTTP_PORT
\* sets http.port.
C30_EnvVarSetsKey ==
  lpc \in {"validate", "done", "failed"}
    => \A s \in EnvNames, key \in ConfigKeys :
         (NamedFor(s, key) /\ environ[s] # "unset") => C[key] = environ[s]


\* The configuration c is invalid in one of the ways that are listed for
\* startup: no application name, a port outside 1..65535, no database driver,
\* no JWT secret in production, TLS enabled without certificate and key.
InvalidConfiguration(c) ==
  \/ c[AppName] = ""
  \/ c[HTTPPort] \notin Numerals
  \/ Atoi(c[HTTPPort]) \notin 1..65535
  \/ c[DatabaseDriver] = ""
  \/ c[AppEnvironment] = "production" /\ c[AuthJWTSecret] = ""
  \/ c[TLSEnabled] = "true" /\ ~(c[TLSCertFile] # "" /\ c[TLSKeyFile] # "")

\* C31: an invalid configuration makes startup fail: once Load has looked at
\* a configuration that is invalid, Load has returned an error, and New
\* returns it without having constructed the application, opened the
\* database or Redis, or listened.
C31_InvalidConfigFailsStartup ==
  (lpc \in {"done", "failed"} /\ InvalidConfiguration(k))
    => /\ lpc = "failed"
       /\ pc \in {"load_config", "exit1", "killed"}
       /\ db = "unset" /\ redis = "unset" /\ upgrader = "unset"
       /\ listener = "none"
       /\ startLog = <<>>

C31_Witness ==
  /\ pc = "exit1"
  /\ exitErr = "config"
  /\ lpc = "failed"
  /\ C[HTTPPort] = "65536"
  /\ C[AppName] # "" /\ C[DatabaseDriver] # "" /\ C[TLSEnabled] = "false"
  /\ C[AppEnvironment] = "development"


\* C32: startup failures are returned as errors and only main ends the
\* process: Get never finds the configuration missing, and whenever the
\* process ends by itself it is main that exits, with the error that New or
\* Run returned, or main that returns.
C32_OnlyMainExits ==
  [][/\ pc' # "fatal"
     /\ (Alive /\ ~Alive' /\ pc' # "killed")
          => \/ pc' = "exit1" /\ exitErr' # "none"
             \/ pc' = "done" /\ exitErr' = "none"]_vars

C32_Witness ==
  /\ pc = "exit1"
  /\ exitErr = "database"
  /\ lpc = "done"
  /\ ~ConfigNil


\* Run has returned, the listener having been acquired before.
RunReturnedAfterListen ==
  pc \in {"done", "exit1"} /\ "listen" \in Range(startLog)

\* C33 (does not hold): on every path on which Run returns after the listener
\* was acquired, the server no longer serves, the database and Redis have
\* been closed and the upgrader has been stopped.
C33_RunLeavesNothingBehind ==
  RunReturnedAfterListen
    => /\ srv \notin {"spawned", "serving"}
       /\ db \in {"nil", "closed"}
       /\ redis \in {"nil", "closed"}
       /\ upgrader = "stopped"


\* C34 (does not hold): no termination signal is lost: a SIGINT or SIGTERM
\* that arrives once the server has started serving never ends the process
\* by its default action, it is left for Run to observe.
C34_NoSignalLost ==
  [][(everServing /\ ~hup' /\ Alive) => pc' # "killed"]_vars


\* Close has been called on the client of collaborator c.
CloseCalled(c) ==
  IF c = "database" THEN "sd_db" \in Range(sdLog)
                    ELSE "sd_redis" \in Range(sdLog)

\* A Ping is issued to collaborator c in this step: an execution of its check
\* starts, or the handler of /readiness runs with the client at hand.
PingIssued(c) ==
  \/ Fired(c)
  \/ req = "readiness" /\ req' = "none" /\ Client(c) # "nil"

\* C35 (does not hold): no Ping is issued to a collaborator after Close was
\* called on it, neither by a scheduled execution of its check nor by a
\* /readiness request that is still in flight.
C35_NoPingAfterClose ==
  [][\A c \in Collaborators : CloseCalled(c) => ~PingIssued(c)]_vars


\* The serving goroutine has been started and has not yet delivered the result
\* of Serve.
ServePending == srv \in {"spawned", "serving"}

\* C36: the single send of the serving goroutine on the error channel can
\* always complete, so the goroutine ends as soon as Serve returns: whichever
\* case the select of Run takes, and throughout Shutdown, a pending goroutine
\* is never blocked on the channel, and the channel never holds a value that
\* the goroutine is still to send.
C36_ServeGoroutineNeverBlocks ==
  (Alive /\ ServePending) => CanSend

C36_Witness ==
  /\ pc = "sd_db"
  /\ sigChan = FALSE
  /\ notify
  /\ "sd_server" \in Range(sdLog)
  /\ srv = "returned"
  /\ errChan = "ErrServerClosed"


\* C37 (does not hold): Shutdown reports a failed teardown call to its caller:
\* when Run has returned through Shutdown and a teardown call had failed, the
\* result of Run is an error.
C37_ShutdownReportsFailure ==
  (pc = "done" /\ sdLog # <<>> /\ sdErrs # {}) => exitErr # "none"


\* The outcome, as /readiness counts it, of a Ping sent now to collaborator c
\* with a deadline: the server behind an open client answers, or it does not.
PingNow(c) ==
  IF Client(c) = "open" /\ dep[c] = "up" THEN "answers" ELSE "fails"

\* The one response /readiness gives for each pair of Ping outcomes.
ReadinessTable ==
  [pd \in {"answers", "fails"}, pr \in {"answers", "fails"} |->
     IF pd = "answers" /\ pr = "answers"
       THEN [ep |-> "readiness", code |-> 200, body |-> {<<"ready", "true">>}]
       ELSE [ep |-> "readiness", code |-> 503, body |-> {<<"ready", "false">>}]]

C39_FailedLoadKeepsConfig == lpc = "failed" => ConfigNil


----------------------------------------------------------------------------
\* internal/app/server.go: a Server on its own.  One goroutine calls Start,
\* which blocks in Serve; another calls Stop.  listener is the field s.listener
\* together with the state of its socket, srv the position of Start, pc the
\* position of the caller of Stop.

\* Server.IsReady: s.listener != nil.
IsReady == listener # "none"

\* Server.HealthCheck: the error it returns ("nil": none).  The dial reaches
\* the address while the socket listens.
HealthCheck ==
  IF ~IsReady THEN "server is not ready"
  ELSE IF listener # "open" THEN "failed to connect to server"
  ELSE "nil"

\* Start: s.upgrader.Listen returns a listener, which is stored in s.listener,
\* or an error, which Start returns.
StartListen ==
  /\ Alive
  /\ srv = "none"
  /\ \/ /\ listener' = "open"
        /\ srv' = "spawned"
        /\ startLog' = Append(startLog, "listen")
     \/ /\ srv' = "returned"
        /\ startLog' = Append(startLog, "listen_failed")
        /\ UNCHANGED listener
  /\ UNCHANGED <<mainVars, confVars, hlthVars, resVars, inShutdown, errChan, inflight,
                 everServing, evtVars, elapsed, sdLog, sdErrs, readyAt, exitErr>>

\* Start: s.server.Serve(ln) begins to accept, or returns at once with
\* ErrServerClosed when Shutdown was called before; Serve closes ln on return.
StartServe ==
  /\ Alive
  /\ srv = "spawned"
  /\ IF inShutdown
       THEN /\ srv' = "returned"
            /\ listener' = "closed"
            /\ UNCHANGED everServing
       ELSE /\ srv' = "serving"
            /\ everServing' = TRUE
            /\ UNCHANGED listener
  /\ UNCHANGED <<mainVars, confVars, hlthVars, resVars, inShutdown, errChan, inflight,
                 evtVars, elapsed, histVars>>

\* Start: Serve returns, with ErrServerClosed after Shutdown was called and
\* with an Accept error otherwise, and Start returns its error.
StartReturn ==
  /\ Alive
  /\ srv = "serving"
  /\ srv' = "returned"
  /\ listener' = "closed"
  /\ UNCHANGED <<mainVars, confVars, hlthVars, resVars, inShutdown, errChan, inflight,
                 everServing, evtVars, elapsed, histVars>>

\* Stop: s.server.Shutdown(ctx) is called and closes the listener Serve runs on.
StopBegin ==
  /\ pc = "server_running"
  /\ call = "idle"
  /\ call' = "active"
  /\ inShutdown' = TRUE
  /\ listener' = IF srv = "serving" THEN "closed" ELSE listener
  /\ sdLog' = Append(sdLog, "stop")
  /\ UNCHANGED <<pc, confVars, hlthVars, resVars, srv, errChan, inflight, everServing,
                 evtVars, elapsed, startLog, sdErrs, readyAt, exitErr>>

\* Time passes while Stop waits for the requests in flight.
StopTick ==
  /\ pc = "server_running"
  /\ call = "active"
  /\ elapsed < ShutdownTimeout
  /\ elapsed' = elapsed + 1
  /\ UNCHANGED <<mainVars, confVars, hlthVars, resVars, srvVars, evtVars, histVars>>

\* Stop: s.server.Shutdown(ctx) returns and Stop returns, an error when the
\* deadline of ctx passed with requests in flight.
StopReturn ==
  /\ pc = "server_running"
  /\ call = "active"
  /\ DrainDone
  /\ call' = "idle"
  /\ pc' = "server_stopped"
  /\ sdErrs' = IF inflight > 0 THEN sdErrs \cup {"stop"} ELSE sdErrs
  /\ UNCHANGED <<confVars, hlthVars, resVars, srvVars, evtVars, elapsed, startLog, sdLog,
                 readyAt, exitErr>>

\* A caller runs HealthCheck; resp holds the error it returned.
CallHealthCheck ==
  /\ Alive
  /\ resp' = [ep |-> "HealthCheck", code |-> 0, body |-> {<<"error", HealthCheck>>}]
  /\ resp' # resp
  /\ UNCHANGED <<mainVars, confVars, now, probe, dep, req, resVars, srvVars, evtVars,
                 elapsed, histVars>>

\* NewServer returned the Server: Start and Stop were not called.
InitServer ==
  /\ LoadIdle
  /\ pc = "server_running"
  /\ call = "idle"
  /\ cfg = [healthEnabled |-> TRUE, databaseCheck |-> TRUE, redisCheck |-> TRUE,
            externalChecks |-> <<>>]
  /\ db = "unset"
  /\ redis = "unset"
  /\ upgrader = "running"
  /\ checks = {}
  /\ extIdx = 1
  /\ listener = "none"
  /\ inShutdown = FALSE
  /\ srv = "none"
  /\ errChan = "empty"
  /\ notify = FALSE
  /\ sigChan = FALSE
  /\ upgExit = FALSE
  /\ hup = FALSE
  /\ successor = "none"
  /\ inflight = 0
  /\ elapsed = 0
  /\ startLog = <<>>
  /\ sdLog = <<>>
  /\ sdErrs = {}
  /\ readyAt = "none"
  /\ everServing = FALSE
  /\ exitErr = "none"
  /\ now = 0
  /\ probe = [d \in CheckNames |-> NoProbe]
  /\ dep = [d \in CheckNames |-> "up"]
  /\ req = "none"
  /\ resp = NoResp

NextServer ==
  \/ StartListen \/ StartServe \/ StartReturn
  \/ AcceptRequest \/ FinishRequest
  \/ StopBegin \/ StopTick \/ StopReturn
  \/ CallHealthCheck

SpecServer == InitServer /\ [][NextServer]_vars

\* Stop was called and has returned.
StopCompleted == pc = "server_stopped"

\* Start returned the error of Listen.
ListenFailed == "listen_failed" \in Range(startLog)

\* C40 (does not hold): IsReady is false before Start has acquired the
\* listener, false when Listen failed and false again once Stop has completed,
\* and HealthCheck returns "server is not ready" whenever IsReady is false.
C40_IsReadyWhileServing ==
  /\ srv = "none" => ~IsReady
  /\ ListenFailed => ~IsReady
  /\ StopCompleted => ~IsReady
  /\ ~IsReady => HealthCheck = "server is not ready"
  /\ (resp.ep = "HealthCheck" /\ ~IsReady)
       => resp.body = {<<"error", "server is not ready">>}

============================================================================
